---- MODULE Spec2Model ----
(***************************************************************************)
(* Cylinder maze generation (Wilson's algorithm) and its reachability      *)
(* verifier, modelled from src/src/maze/mod.rs.                            *)
(*                                                                         *)
(* A maze instance is a record: the fields of CylinderMaze (grid, rows,    *)
(* cols) together with the frame of generate_wilson (in_maze, start_col,   *)
(* the for-loop position row/col, path, current, the commit index i,       *)
(* end_col) and the caller's `solvable`; `carved` is history, the pairs of  *)
(* cells carve_passage has been called on.  `maze` is the instance under   *)
(* study; `twin` is a second, independent instance of the same size that   *)
(* PairSpec drives with the same random draws.                             *)
(***************************************************************************)
EXTENDS Integers, Naturals, Sequences, FiniteSets, TLC

VARIABLES maze, twin

vars == <<maze, twin>>

\* Bound of the model: every lattice of rows x cols cells, rows, cols >= 1,
\* with at most MaxCells cells.
MaxCells == 9

\* The lattice sizes explored.
Sizes == {rc \in (1..MaxCells) \X (1..MaxCells) : rc[1] * rc[2] <= MaxCells}

\* Values an rng draw can take: a column, or an index into get_neighbors.
Draws == 0..(IF MaxCells > 4 THEN MaxCells - 1 ELSE 3)

\* enum Cell
Wall == "Wall"
Path == "Path"

Range(f) == {f[x] : x \in DOMAIN f}

----------------------------------------------------------------------------
(* CylinderMaze::new: a (2*rows+1) x (2*cols+1) grid, every position Wall. *)
new(rows, cols) ==
    [ rows |-> rows,
      cols |-> cols,
      grid |-> [r \in 0..(2 * rows) |-> [c \in 0..(2 * cols) |-> Wall]],
      pc |-> "new",
      in_maze |-> {},
      carved |-> {},
      start_col |-> 0,
      row |-> 0,
      col |-> 0,
      path |-> <<>>,
      current |-> <<0, 0>>,
      i |-> 0,
      end_col |-> 0,
      query |-> <<>>,
      solvable |-> FALSE ]

cell_to_grid(row, col) == <<2 * row + 1, 2 * col + 1>>

\* The logical cells of instance s.
Cells(s) == (0..(s.rows - 1)) \X (0..(s.cols - 1))

\* Mutant of get_neighbors: the bottom edge is tested against rows, not
\* rows - 1.
get_neighbors_down_off_by_one(s, row, col) ==
    LET up == IF row > 0 THEN << <<row - 1, col>> >> ELSE <<>>
        down == IF row < s.rows THEN << <<row + 1, col>> >> ELSE <<>>
        left_col == IF col = 0 THEN s.cols - 1 ELSE col - 1
        right_col == (col + 1) % s.cols
    IN  up \o down \o << <<row, left_col>> >> \o << <<row, right_col>> >>

\* Mutant of get_neighbors: the top edge is tested against row 1, not row 0.
get_neighbors_up_off_by_one(s, row, col) ==
    LET up == IF row > 1 THEN << <<row - 1, col>> >> ELSE <<>>
        down == IF row < s.rows - 1 THEN << <<row + 1, col>> >> ELSE <<>>
        left_col == IF col = 0 THEN s.cols - 1 ELSE col - 1
        right_col == (col + 1) % s.cols
    IN  up \o down \o << <<row, left_col>> >> \o << <<row, right_col>> >>

\* Mutant of get_neighbors: the right neighbour is bounded like a row, not
\* wrapped.
get_neighbors_right_bounded(s, row, col) ==
    LET up == IF row > 0 THEN << <<row - 1, col>> >> ELSE <<>>
        down == IF row < s.rows - 1 THEN << <<row + 1, col>> >> ELSE <<>>
        left_col == IF col = 0 THEN s.cols - 1 ELSE col - 1
        right == IF col < s.cols - 1 THEN << <<row, col + 1>> >> ELSE <<>>
    IN  up \o down \o << <<row, left_col>> >> \o right

\* get_neighbors: the Vec it returns, in push order (up, down, left, right).
get_neighbors(s, row, col) ==
    LET up == IF row > 0 THEN << <<row - 1, col>> >> ELSE <<>>
        down == IF row < s.rows - 1 THEN << <<row + 1, col>> >> ELSE <<>>
        left_col == IF col = 0 THEN s.cols - 1 ELSE col - 1
        right_col == (col + 1) % s.cols
    IN  up \o down \o << <<row, left_col>> >> \o << <<row, right_col>> >>

\* self.grid[r][c] = Cell::Path
SetPath(g, r, c) == [g EXCEPT ![r][c] = Path]

\* Mutant of open_wall: the seam is not special-cased, the midpoint formula
\* is applied to every horizontal move.
open_wall_midpoint_only(s, g, from, to) ==
    LET fg == cell_to_grid(from[1], from[2])
        tg == cell_to_grid(to[1], to[2])
    IN  IF from[1] = to[1]
        THEN SetPath(g, fg[1], (fg[2] + tg[2]) \div 2)
        ELSE SetPath(g, (fg[1] + tg[1]) \div 2, fg[2])

\* Mutant of open_wall: a wrapping move opens only the leftmost wall.
open_wall_left_seam_only(s, g, from, to) ==
    LET fg == cell_to_grid(from[1], from[2])
        tg == cell_to_grid(to[1], to[2])
    IN  IF from[1] = to[1]
        THEN IF (from[2] = 0 /\ to[2] = s.cols - 1)
                \/ (from[2] = s.cols - 1 /\ to[2] = 0)
             THEN SetPath(g, fg[1], 0)
             ELSE SetPath(g, fg[1], (fg[2] + tg[2]) \div 2)
        ELSE SetPath(g, (fg[1] + tg[1]) \div 2, fg[2])

\* Mutant of open_wall: a vertical move opens the wall above the cell moved
\* from, whichever way the move goes.
open_wall_above_from(s, g, from, to) ==
    LET fg == cell_to_grid(from[1], from[2])
        tg == cell_to_grid(to[1], to[2])
    IN  IF from[1] = to[1]
        THEN IF (from[2] = 0 /\ to[2] = s.cols - 1)
                \/ (from[2] = s.cols - 1 /\ to[2] = 0)
             THEN SetPath(SetPath(g, fg[1], 0), fg[1], 2 * s.cols)
             ELSE SetPath(g, fg[1], (fg[2] + tg[2]) \div 2)
        ELSE SetPath(g, fg[1] - 1, fg[2])

\* carve_passage, lines 67-85: the wall between the two cells is marked in
\* grid g.
open_wall(s, g, from, to) ==
    LET fg == cell_to_grid(from[1], from[2])
        tg == cell_to_grid(to[1], to[2])
        from_r == fg[1]
        from_c == fg[2]
        to_r == tg[1]
        to_c == tg[2]
    IN  IF from[1] = to[1]
        THEN IF (from[2] = 0 /\ to[2] = s.cols - 1)
                \/ (from[2] = s.cols - 1 /\ to[2] = 0)
             THEN LET grid_cols == 2 * s.cols + 1
                  IN  SetPath(SetPath(g, from_r, 0), from_r, grid_cols - 1)
             ELSE LET wall_c == (from_c + to_c) \div 2
                  IN  SetPath(g, from_r, wall_c)
        ELSE LET wall_r == (from_r + to_r) \div 2
             IN  SetPath(g, wall_r, from_c)

\* Mutant of carve_passage: only the cell moved to is marked.
carve_passage_to_only(s, from, to) ==
    LET tg == cell_to_grid(to[1], to[2])
    IN  open_wall(s, SetPath(s.grid, tg[1], tg[2]), from, to)

\* carve_passage: the grid after the call.
carve_passage(s, from, to) ==
    LET fg == cell_to_grid(from[1], from[2])
        tg == cell_to_grid(to[1], to[2])
    IN  open_wall(s, SetPath(SetPath(s.grid, fg[1], fg[2]), tg[1], tg[2]),
                  from, to)

\* rng.gen_range(0..n) can return d.
gen_range(n, d) == d \in 0..(n - 1)

\* Mutant of PickNeighbor: the index comes from the draw or from another
\* source that may yield 0.
PickNeighbor_or_first(neighbors, d) == {neighbors[d + 1], neighbors[1]}

\* neighbors[rng.gen_range(0..neighbors.len())], the draw being d.
PickNeighbor(neighbors, d) == {neighbors[d + 1]}

\* path.iter().position(|&p| p == next): the first index (0-based), or -1.
position(path, next) ==
    IF \E k \in 1..Len(path) : path[k] = next
    THEN (CHOOSE k \in 1..Len(path) :
             path[k] = next /\ \A j \in 1..(k - 1) : path[j] # next) - 1
    ELSE -1

\* The for loops' position after the iteration at (row, col).
AdvanceRow(s) == IF s.col + 1 = s.cols THEN s.row + 1 ELSE s.row
AdvanceCol(s) == IF s.col + 1 = s.cols THEN 0 ELSE s.col + 1

----------------------------------------------------------------------------
(* generate_wilson, one step at a time, on an instance s with successor sn. *)

\* Lines 89-97: the seed cell in the top row.
SeedOn(s, sn, d) ==
    /\ s.pc = "new"
    /\ gen_range(s.cols, d)
    /\ LET g == cell_to_grid(0, d)
       IN  sn = [s EXCEPT !.pc = "scan",
                          !.start_col = d,
                          !.in_maze = {<<0, d>>},
                          !.grid = SetPath(s.grid, g[1], g[2]),
                          !.row = 0,
                          !.col = 0]

\* Lines 100-104: a cell already in the maze is skipped.
SkipOn(s, sn) ==
    /\ s.pc = "scan"
    /\ s.row < s.rows
    /\ <<s.row, s.col>> \in s.in_maze
    /\ sn = [s EXCEPT !.row = AdvanceRow(s), !.col = AdvanceCol(s)]

\* Lines 107-108: a walk starts at the cell.
BeginWalkOn(s, sn) ==
    /\ s.pc = "scan"
    /\ s.row < s.rows
    /\ <<s.row, s.col>> \notin s.in_maze
    /\ sn = [s EXCEPT !.pc = "walk",
                      !.path = << <<s.row, s.col>> >>,
                      !.current = <<s.row, s.col>>]

\* Mutant of WalkStepOn: the loop is not erased, the neighbour is pushed
\* whether or not the path holds it.
WalkStepOn_no_erase(s, sn, d) ==
    /\ s.pc = "walk"
    /\ s.current \notin s.in_maze
    /\ LET neighbors == get_neighbors(s, s.current[1], s.current[2])
       IN  /\ gen_range(Len(neighbors), d)
           /\ \E next \in PickNeighbor(neighbors, d) :
                sn = [s EXCEPT !.path = Append(s.path, next),
                               !.current = next]

\* Lines 110-123: one iteration of the while loop.
WalkStepOn(s, sn, d) ==
    /\ s.pc = "walk"
    /\ s.current \notin s.in_maze
    /\ LET neighbors == get_neighbors(s, s.current[1], s.current[2])
       IN  /\ gen_range(Len(neighbors), d)
           /\ \E next \in PickNeighbor(neighbors, d) :
                LET pos == position(s.path, next)
                IN  sn = [s EXCEPT !.path = IF pos >= 0
                                             THEN SubSeq(s.path, 1, pos + 1)
                                             ELSE Append(s.path, next),
                                   !.current = next]

\* Line 110: the while loop ends, the for loop over the path starts.
WalkEndOn(s, sn) ==
    /\ s.pc = "walk"
    /\ s.current \in s.in_maze
    /\ sn = [s EXCEPT !.pc = "commit", !.i = 0]

\* Mutant of CommitStepOn: only the cell the walk started from is inserted
\* into in_maze.
CommitStepOn_first_only(s, sn) ==
    /\ s.pc = "commit"
    /\ s.i < Len(s.path)
    /\ LET cell == s.path[s.i + 1]
       IN  sn = [s EXCEPT !.in_maze = s.in_maze \cup {s.path[1]},
                          !.grid = IF s.i > 0
                                   THEN carve_passage(s, s.path[s.i], cell)
                                   ELSE s.grid,
                          !.carved = IF s.i > 0
                                     THEN s.carved \cup {{s.path[s.i], cell}}
                                     ELSE s.carved,
                          !.i = s.i + 1]

\* Lines 126-133: one iteration of the for loop over the path.
CommitStepOn(s, sn) ==
    /\ s.pc = "commit"
    /\ s.i < Len(s.path)
    /\ LET cell == s.path[s.i + 1]
       IN  sn = [s EXCEPT !.in_maze = s.in_maze \cup {cell},
                          !.grid = IF s.i > 0
                                   THEN carve_passage(s, s.path[s.i], cell)
                                   ELSE s.grid,
                          !.carved = IF s.i > 0
                                     THEN s.carved \cup {{s.path[s.i], cell}}
                                     ELSE s.carved,
                          !.i = s.i + 1]

\* Line 126: the path is committed; the for loops move on, and the locals
\* of the loop body (path, current, i) go out of scope.
CommitEndOn(s, sn) ==
    /\ s.pc = "commit"
    /\ s.i = Len(s.path)
    /\ sn = [s EXCEPT !.pc = "scan",
                      !.row = AdvanceRow(s),
                      !.col = AdvanceCol(s),
                      !.path = <<>>,
                      !.current = <<0, 0>>,
                      !.i = 0]

\* Mutant of PickEndOn: the start column is drawn again with the end column.
PickEndOn_redraws_start(s, sn, d) ==
    /\ s.pc = "scan"
    /\ s.row = s.rows
    /\ gen_range(s.cols, d)
    /\ \E c \in 0..(s.cols - 1) :
          sn = [s EXCEPT !.pc = "done", !.end_col = d, !.start_col = c]

\* Lines 137-141: the end cell in the bottom row; the function returns.
PickEndOn(s, sn, d) ==
    /\ s.pc = "scan"
    /\ s.row = s.rows
    /\ gen_range(s.cols, d)
    /\ sn = [s EXCEPT !.pc = "done", !.end_col = d]

\* The pair generate_wilson returns.
start(s) == <<0, s.start_col>>

\* Mutant of end: the bottom row is taken to be rows, not rows - 1.
end_row_off_by_one(s) == <<s.rows, s.end_col>>

end(s) == <<s.rows - 1, s.end_col>>

----------------------------------------------------------------------------
(* can_solve: breadth-first search over storage coordinates. *)

\* Mutant of storage_neighbors: the right neighbour is not wrapped.
storage_neighbors_right_unwrapped(s, r, c) ==
    LET grid_rows == 2 * s.rows + 1
        grid_cols == 2 * s.cols + 1
        up == IF r > 0 THEN << <<r - 1, c>> >> ELSE <<>>
        down == IF r + 1 < grid_rows THEN << <<r + 1, c>> >> ELSE <<>>
        left_c == IF c = 0 THEN grid_cols - 1 ELSE c - 1
    IN  up \o down \o << <<r, left_c>> >> \o << <<r, c + 1>> >>

\* Mutant of storage_neighbors: left and right are bounded like up and down.
storage_neighbors_columns_bounded(s, r, c) ==
    LET grid_rows == 2 * s.rows + 1
        grid_cols == 2 * s.cols + 1
        up == IF r > 0 THEN << <<r - 1, c>> >> ELSE <<>>
        down == IF r + 1 < grid_rows THEN << <<r + 1, c>> >> ELSE <<>>
        left == IF c > 0 THEN << <<r, c - 1>> >> ELSE <<>>
        right == IF c + 1 < grid_cols THEN << <<r, c + 1>> >> ELSE <<>>
    IN  up \o down \o left \o right

\* Lines 184-200: the four storage neighbours, in push order.
storage_neighbors(s, r, c) ==
    LET grid_rows == 2 * s.rows + 1
        grid_cols == 2 * s.cols + 1
        up == IF r > 0 THEN << <<r - 1, c>> >> ELSE <<>>
        down == IF r + 1 < grid_rows THEN << <<r + 1, c>> >> ELSE <<>>
        left_c == IF c = 0 THEN grid_cols - 1 ELSE c - 1
        right_c == (c + 1) % grid_cols
    IN  up \o down \o << <<r, left_c>> >> \o << <<r, right_c>> >>

\* Mutant of passable: the marker is not looked at.
passable_any(s, p) == s.grid[p[1]][p[2]] \in {Wall, Path}

\* Line 203: an unvisited position is enqueued if it is Path.
passable(s, p) == s.grid[p[1]][p[2]] = Path

\* Lines 202-207: the for loop over the neighbours, from index k on;
\* b is [queue, visited].
RECURSIVE enqueue_neighbors(_, _, _, _)
enqueue_neighbors(s, neighbors, k, b) ==
    IF k > Len(neighbors)
    THEN b
    ELSE LET n == neighbors[k]
         IN  IF n \notin b.visited /\ passable(s, n)
             THEN enqueue_neighbors(s, neighbors, k + 1,
                      [queue |-> Append(b.queue, n),
                       visited |-> b.visited \cup {n}])
             ELSE enqueue_neighbors(s, neighbors, k + 1, b)

\* Lines 178-210: the while loop, from the state b = [queue, visited].
RECURSIVE bfs(_, _, _)
bfs(s, b, endg) ==
    IF b.queue = <<>>
    THEN FALSE
    ELSE LET p == Head(b.queue)
         IN  IF p = endg
             THEN TRUE
             ELSE bfs(s,
                      enqueue_neighbors(s, storage_neighbors(s, p[1], p[2]), 1,
                          [queue |-> Tail(b.queue), visited |-> b.visited]),
                      endg)

can_solve(s, a, b) ==
    LET sg == cell_to_grid(a[1], a[2])
        eg == cell_to_grid(b[1], b[2])
    IN  bfs(s, [queue |-> <<sg>>, visited |-> {sg}], eg)

\* can_solve with its effects on record: `pushed` is every position given to
\* queue.push_back, in order, `pops` counts the iterations of the while loop,
\* and `panic` is set when self.grid[nr][nc] indexes outside the array (the
\* call then panics and returns nothing: `panicked`).
\* Lines 202-207, from index k on.
RECURSIVE visit_neighbors(_, _, _, _)
visit_neighbors(s, neighbors, k, b) ==
    IF k > Len(neighbors) \/ b.panic
    THEN b
    ELSE LET n == neighbors[k]
         IN  IF n \in b.visited
             THEN visit_neighbors(s, neighbors, k + 1, b)
             ELSE IF n[1] \notin DOMAIN s.grid \/ n[2] \notin DOMAIN s.grid[n[1]]
                  THEN [b EXCEPT !.panic = TRUE]
                  ELSE IF passable(s, n)
                       THEN visit_neighbors(s, neighbors, k + 1,
                                [b EXCEPT !.queue = Append(b.queue, n),
                                          !.visited = b.visited \cup {n},
                                          !.pushed = Append(b.pushed, n)])
                       ELSE visit_neighbors(s, neighbors, k + 1, b)

\* Lines 178-210.
RECURSIVE bfs_run(_, _, _)
bfs_run(s, b, endg) ==
    IF b.panic
    THEN [panicked |-> TRUE, result |-> FALSE, pushed |-> b.pushed,
          pops |-> b.pops]
    ELSE IF b.queue = <<>>
         THEN [panicked |-> FALSE, result |-> FALSE, pushed |-> b.pushed,
               pops |-> b.pops]
         ELSE LET p == Head(b.queue)
              IN  IF p = endg
                  THEN [panicked |-> FALSE, result |-> TRUE,
                        pushed |-> b.pushed, pops |-> b.pops + 1]
                  ELSE bfs_run(s,
                           visit_neighbors(s, storage_neighbors(s, p[1], p[2]), 1,
                               [b EXCEPT !.queue = Tail(b.queue),
                                         !.pops = b.pops + 1]),
                           endg)

\* Lines 165-211.
can_solve_run(s, a, b) ==
    LET sg == cell_to_grid(a[1], a[2])
        eg == cell_to_grid(b[1], b[2])
    IN  bfs_run(s, [queue |-> <<sg>>, visited |-> {sg}, pushed |-> <<sg>>,
                    pops |-> 0, panic |-> FALSE], eg)

\* main.rs line 19 and the tests: can_solve on the pair generation returned.
VerifyOn(s, sn) ==
    /\ s.pc = "done"
    /\ sn = [s EXCEPT !.pc = "verified",
                      !.query = <<start(s), end(s)>>,
                      !.solvable = can_solve(s, start(s), end(s))]

\* tests::test_unsolvable_maze: can_solve on a maze that was constructed and
\* never generated, for any two cells a and b.
SolveUngeneratedOn(s, sn, a, b) ==
    /\ s.pc = "new"
    /\ sn = [s EXCEPT !.pc = "probed",
                      !.query = <<a, b>>,
                      !.solvable = can_solve(s, a, b)]

----------------------------------------------------------------------------
(* One maze: construction, generation, verification. *)

Init ==
    \E rc \in Sizes :
        /\ maze = new(rc[1], rc[2])
        /\ twin = new(rc[1], rc[2])

Seed == \E d \in Draws : SeedOn(maze, maze', d) /\ UNCHANGED twin
Skip == SkipOn(maze, maze') /\ UNCHANGED twin
BeginWalk == BeginWalkOn(maze, maze') /\ UNCHANGED twin
WalkStep == \E d \in Draws : WalkStepOn(maze, maze', d) /\ UNCHANGED twin
WalkEnd == WalkEndOn(maze, maze') /\ UNCHANGED twin
CommitStep == CommitStepOn(maze, maze') /\ UNCHANGED twin
CommitEnd == CommitEndOn(maze, maze') /\ UNCHANGED twin
PickEnd == \E d \in Draws : PickEndOn(maze, maze', d) /\ UNCHANGED twin
Verify == VerifyOn(maze, maze') /\ UNCHANGED twin
SolveUngenerated ==
    \E a \in Cells(maze), b \in Cells(maze) :
        SolveUngeneratedOn(maze, maze', a, b) /\ UNCHANGED twin

Next ==
    \/ Seed
    \/ Skip
    \/ BeginWalk
    \/ WalkStep
    \/ WalkEnd
    \/ CommitStep
    \/ CommitEnd
    \/ PickEnd
    \/ Verify
    \/ SolveUngenerated

Spec == Init /\ [][Next]_vars

----------------------------------------------------------------------------
(* Generation under fair random choice.  The program is sequential and     *)
(* never blocks, so a step of generate_wilson that can be taken is taken;  *)
(* rng.gen_range is uniform, so a move of the walk to a neighbouring cell  *)
(* that is offered again and again is eventually drawn.                    *)

\* The lattices explored for termination have up to LiveMaxCells cells.
LiveMaxCells == 6

LiveSizes == {rc \in Sizes : rc[1] * rc[2] <= LiveMaxCells}

LiveInit == \E rc \in LiveSizes : maze = new(rc[1], rc[2]) /\ twin = new(rc[1], rc[2])

\* The place of a cell in the row-major order of the for loops (lines 100-101).
CellIndex(s, cell) == cell[1] * s.cols + cell[2]

\* Lines 111-113: a walk step whose draw moves the walk to the k-th cell.
WalkStepTo(k) ==
    /\ \E d \in Draws : WalkStepOn(maze, maze', d)
    /\ CellIndex(maze, maze'.current) = k
    /\ UNCHANGED twin

\* The steps of generate_wilson that draw nothing inside a walk, and its two
\* one-off draws (seed column, end column).
Advance == Seed \/ Skip \/ BeginWalk \/ WalkEnd \/ CommitStep \/ CommitEnd \/ PickEnd

Fairness ==
    /\ WF_vars(Advance)
    /\ \A k \in 0..(LiveMaxCells - 1) : SF_vars(WalkStepTo(k))

LiveSpec == LiveInit /\ [][Next]_vars /\ Fairness

----------------------------------------------------------------------------
(* Two independent runs of generate_wilson on fresh mazes of the same size, *)
(* fed the same sequence of draws: every step that consumes a draw is taken *)
(* by both with the same value; the steps that consume none are taken by    *)
(* each on its own, the twin's once the maze's are done.                    *)

\* Instance s can take a step that consumes no draw.
Busy(s) ==
    \/ s.pc = "scan" /\ s.row < s.rows
    \/ s.pc = "walk" /\ s.current \in s.in_maze
    \/ s.pc = "commit"

PairSeed ==
    \E d \in Draws : SeedOn(maze, maze', d) /\ SeedOn(twin, twin', d)

PairWalkStep ==
    \E d \in Draws : WalkStepOn(maze, maze', d) /\ WalkStepOn(twin, twin', d)

PairPickEnd ==
    \E d \in Draws : PickEndOn(maze, maze', d) /\ PickEndOn(twin, twin', d)

TwinSkip == ~Busy(maze) /\ SkipOn(twin, twin') /\ UNCHANGED maze
TwinBeginWalk == ~Busy(maze) /\ BeginWalkOn(twin, twin') /\ UNCHANGED maze
TwinWalkEnd == ~Busy(maze) /\ WalkEndOn(twin, twin') /\ UNCHANGED maze
TwinCommitStep == ~Busy(maze) /\ CommitStepOn(twin, twin') /\ UNCHANGED maze
TwinCommitEnd == ~Busy(maze) /\ CommitEndOn(twin, twin') /\ UNCHANGED maze

PairNext ==
    \/ PairSeed
    \/ PairWalkStep
    \/ PairPickEnd
    \/ Skip
    \/ BeginWalk
    \/ WalkEnd
    \/ CommitStep
    \/ CommitEnd
    \/ TwinSkip
    \/ TwinBeginWalk
    \/ TwinWalkEnd
    \/ TwinCommitStep
    \/ TwinCommitEnd

PairSpec == Init /\ [][PairNext]_vars

\* ------------------------------------------------------------------------
\* Verifier checks: the same program on the lattices of at most
\* VerifierMaxCells cells.  The properties of can_solve below run the search
\* for every pair of cells on every grid generation goes through, which is
\* affordable on these lattices.
\* ------------------------------------------------------------------------
VerifierMaxCells == 8

VerifierSizes == {rc \in Sizes : rc[1] * rc[2] <= VerifierMaxCells}

VerifierInit ==
    \E rc \in VerifierSizes : maze = new(rc[1], rc[2]) /\ twin = new(rc[1], rc[2])

VerifierSpec == VerifierInit /\ [][Next]_vars

----------------------------------------------------------------------------
(* What the grid of an instance holds, read off its storage positions. *)

\* generate_wilson has returned.
Generated(s) == s.pc = "done"

\* The for loops of generate_wilson are over (line 135): the grid is final,
\* lines 137-141 only draw the end column and return.
GridFinished(s) == s.pc = "scan" /\ s.row = s.rows

IsPath(s, p) == s.grid[p[1]][p[2]] = Path

\* All storage positions, and those that are not a cell's own position.
Storage(s) == (0..(2 * s.rows)) \X (0..(2 * s.cols))
CellPositions(s) == {cell_to_grid(c[1], c[2]) : c \in Cells(s)}
WallPositions(s) == Storage(s) \ CellPositions(s)
CarvedWalls(s) == {p \in WallPositions(s) : IsPath(s, p)}

\* The passages the lattice allows, each with the cells it joins and the
\* storage positions it occupies: "V" below cell (r, c), "H" right of cell
\* (r, c), "S" the seam of row r.
PassageIds(s) ==
    {<<"V", c[1], c[2]>> : c \in {c \in Cells(s) : c[1] < s.rows - 1}}
    \cup {<<"H", c[1], c[2]>> : c \in {c \in Cells(s) : c[2] < s.cols - 1}}
    \cup {<<"S", r, 0>> : r \in 0..(s.rows - 1)}

Ends(s, e) ==
    CASE e[1] = "V" -> {<<e[2], e[3]>>, <<e[2] + 1, e[3]>>}
      [] e[1] = "H" -> {<<e[2], e[3]>>, <<e[2], e[3] + 1>>}
      [] e[1] = "S" -> {<<e[2], 0>>, <<e[2], s.cols - 1>>}

Positions(s, e) ==
    CASE e[1] = "V" -> {<<2 * e[2] + 2, 2 * e[3] + 1>>}
      [] e[1] = "H" -> {<<2 * e[2] + 1, 2 * e[3] + 2>>}
      [] e[1] = "S" -> {<<2 * e[2] + 1, 0>>, <<2 * e[2] + 1, 2 * s.cols>>}

\* The carved passages: a seam passage counts once.
Passages(s) == {e \in PassageIds(s) : \E p \in Positions(s, e) : IsPath(s, p)}

\* The cells joined to the set S of cells by chains of links, a link being
\* the set of the two cells a carved passage joins.
RECURSIVE Joined(_, _)
Joined(links, S) ==
    LET T == S \cup UNION {l \in links : l \cap S # {}}
    IN  IF T = S THEN S ELSE Joined(links, T)

Components(s) ==
    LET links == {Ends(s, e) : e \in Passages(s)}
    IN  {Joined(links, {c}) : c \in Cells(s)}

\* The rows whose seam passage is carved on both sides.
SeamRows(s) ==
    {r \in 0..(s.rows - 1) :
        IsPath(s, <<2 * r + 1, 0>>) /\ IsPath(s, <<2 * r + 1, 2 * s.cols>>)}

----------------------------------------------------------------------------
(* Claims. *)

\* C1: spanning-tree completeness. When generate_wilson has returned on a
\* fresh rows x cols maze, the storage marker at (2*row+1, 2*col+1) is Path
\* for every logical cell (row, col), the 1 x 1 maze included.
C1_Completeness ==
    Generated(maze) =>
        \A c \in Cells(maze) : IsPath(maze, cell_to_grid(c[1], c[2]))

\* C1 witness: generation has returned on a 3 x 3 maze after a walk that
\* started at the last cell, and on a 1 x 1 maze no walk is needed.
C1_Witness ==
    /\ maze.pc = "done"
    /\ maze.rows = 3
    /\ maze.cols = 3
    /\ IsPath(maze, cell_to_grid(2, 2))

\* C2: universal connectivity. On every grid generate_wilson finishes,
\* can_solve(a, b) is true for every ordered pair of logical cells; when it
\* has returned, can_solve is true of the (start, end) pair it returned, and
\* the caller's call on that pair answers true.
C2_Connectivity ==
    /\ GridFinished(maze) =>
           \A a \in Cells(maze), b \in Cells(maze) : can_solve(maze, a, b)
    /\ Generated(maze) => can_solve(maze, start(maze), end(maze))
    /\ maze.pc = "verified" => maze.solvable

\* C2 witness: a 3 x 3 maze verified between distinct start and end cells.
C2_Witness ==
    /\ maze.pc = "verified"
    /\ maze.rows = 3
    /\ maze.cols = 3
    /\ maze.query = << <<0, 0>>, <<2, 2>> >>
    /\ maze.solvable

\* C3: the generated maze is a spanning tree of the cylindrical lattice.
\* Counting a seam passage once, exactly rows*cols - 1 passages are carved;
\* every carved wall position belongs to a passage between two
\* Topology-adjacent cells; and the passage graph has no cycle and is
\* connected (one simple path between any two cells).
C3_SpanningTree ==
    Generated(maze) =>
        LET carved == Passages(maze)
            parts == Components(maze)
        IN  /\ Cardinality(carved) = maze.rows * maze.cols - 1
            /\ \A p \in CarvedWalls(maze) :
                  \E e \in carved : p \in Positions(maze, e)
            /\ \A e \in carved :
                  /\ Cardinality(Ends(maze, e)) = 2
                  /\ \A a \in Ends(maze, e) : \A b \in Ends(maze, e) \ {a} :
                        b \in Range(get_neighbors(maze, a[1], a[2]))
            /\ Cardinality(carved)
                  = Cardinality(Cells(maze)) - Cardinality(parts)
            /\ Cardinality(parts) = 1

\* C3 witness: a generated 3 x 3 maze with 8 passages, one of them a seam.
C3_Witness ==
    /\ maze.pc = "done"
    /\ maze.rows = 3
    /\ maze.cols = 3
    /\ Cardinality(Passages(maze)) = 8
    /\ \E e \in Passages(maze) : e[1] = "S"

\* C4 as stated: after generation the number of Path storage positions,
\* the cells' own positions excluded, is exactly rows*cols - 1.
C4_EdgeCountAsStated ==
    Generated(maze) =>
        Cardinality(CarvedWalls(maze)) = maze.rows * maze.cols - 1

\* C4 amended: that number is rows*cols - 1 plus the number of rows whose
\* seam passage is carved, a seam passage occupying the two storage
\* positions (2*row+1, 0) and (2*row+1, 2*cols).
C4_EdgeCount ==
    Generated(maze) =>
        Cardinality(CarvedWalls(maze))
            = maze.rows * maze.cols - 1 + Cardinality(SeamRows(maze))

\* C4 witness: a generated 3 x 3 maze with two seam passages, hence ten
\* carved wall positions.
C4_Witness ==
    /\ maze.pc = "done"
    /\ maze.rows = 3
    /\ maze.cols = 3
    /\ Cardinality(SeamRows(maze)) = 2
    /\ Cardinality(CarvedWalls(maze)) = 10

\* Two cells are directly connected when a carved wall, or a chain of carved
\* walls that passes through no cell, leads from one to the other by the
\* verifier's storage adjacency.
CarvedWallsNextTo(s, p) ==
    {q \in Range(storage_neighbors(s, p[1], p[2])) :
        q \in WallPositions(s) /\ IsPath(s, q)}

RECURSIVE WallChain(_, _)
WallChain(s, W) ==
    LET X == W \cup UNION {CarvedWallsNextTo(s, w) : w \in W}
    IN  IF X = W THEN W ELSE WallChain(s, X)

\* The cells directly connected to cell a.
LinkedCells(s, a) ==
    LET chain == WallChain(s, CarvedWallsNextTo(s, cell_to_grid(a[1], a[2])))
        ends == UNION {Range(storage_neighbors(s, w[1], w[2])) : w \in chain}
    IN  {b \in Cells(s) : cell_to_grid(b[1], b[2]) \in ends}

DirectlyConnected(s, a, b) == b \in LinkedCells(s, a)

\* Columns c1 and c2 are next to each other around the cylinder.
CyclicallyAdjacent(s, c1, c2) ==
    (c1 + 1) % s.cols = c2 \/ (c2 + 1) % s.cols = c1

\* No two cells in different columns that are not cyclically adjacent, or
\* in different rows, are directly connected.
NoFarLinks(s) ==
    \A a \in Cells(s) :
        \A b \in LinkedCells(s, a) :
            a[2] # b[2] => (a[1] = b[1] /\ CyclicallyAdjacent(s, a[2], b[2]))

\* The grid carve_passage(a, b) must leave, as the contract words it.
CarveContract(s, a, b) ==
    LET ag == <<2 * a[1] + 1, 2 * a[2] + 1>>
        bg == <<2 * b[1] + 1, 2 * b[2] + 1>>
        wrapping == a[1] = b[1] /\ {a[2], b[2]} = {0, s.cols - 1}
        wall == IF wrapping
                THEN {<<2 * a[1] + 1, 0>>, <<2 * a[1] + 1, 2 * s.cols>>}
                ELSE {<<(ag[1] + bg[1]) \div 2, (ag[2] + bg[2]) \div 2>>}
    IN  [r \in 0..(2 * s.rows) |->
            [c \in 0..(2 * s.cols) |->
                IF <<r, c>> \in {ag, bg} \cup wall THEN Path ELSE s.grid[r][c]]]

\* C5: each carve_passage(a, b) call of generation (a and b Topology-adjacent)
\* sets the markers of a and b to Path and opens the wall between them: the
\* midpoint of the two storage coordinates for a vertical or non-wrapping
\* horizontal move, both (2*row+1, 0) and (2*row+1, 2*cols) for a move
\* between column 0 and column cols-1; every other position is left alone.
C5_CarvePassage ==
    [][(maze.pc = "commit" /\ maze.i > 0 /\ maze'.i = maze.i + 1) =>
          /\ maze.path[maze.i + 1]
                \in Range(get_neighbors(maze, maze.path[maze.i][1],
                                        maze.path[maze.i][2]))
          /\ maze'.grid
                = CarveContract(maze, maze.path[maze.i], maze.path[maze.i + 1])
      ]_vars

\* C5 witness: in a 3-column maze a passage was just carved between column
\* 2 and column 0, and both boundary positions of the row are Path.
C5_Witness ==
    /\ maze.pc = "commit"
    /\ maze.cols = 3
    /\ maze.i >= 2
    /\ maze.path[maze.i - 1][1] = maze.path[maze.i][1]
    /\ maze.path[maze.i - 1][2] = 2
    /\ maze.path[maze.i][2] = 0
    /\ IsPath(maze, <<2 * maze.path[maze.i][1] + 1, 0>>)
    /\ IsPath(maze, <<2 * maze.path[maze.i][1] + 1, 6>>)

\* C6 as stated: in a generated maze, in every row the cells in column 0 and
\* column cols-1 (when they are two cells) are joined through the carved wall
\* pair at storage columns 0 and 2*cols, and no two cells in columns that
\* are not cyclically adjacent are directly connected.
C6_WrapAdjacencyAsStated ==
    Generated(maze) =>
        /\ \A r \in 0..(maze.rows - 1) :
              maze.cols = 1
              \/ /\ IsPath(maze, <<2 * r + 1, 0>>)
                 /\ IsPath(maze, <<2 * r + 1, 2 * maze.cols>>)
                 /\ DirectlyConnected(maze, <<r, 0>>, <<r, maze.cols - 1>>)
        /\ NoFarLinks(maze)

\* C6 amended: in a generated maze, in every row the storage positions at
\* columns 0 and 2*cols are both Path or both Wall; where they are Path the
\* cells in column 0 and column cols-1 are directly connected, each way,
\* through that wall pair; and no two cells in columns that are not
\* cyclically adjacent are directly connected.
C6_WrapAdjacency ==
    Generated(maze) =>
        /\ \A r \in 0..(maze.rows - 1) :
              /\ IsPath(maze, <<2 * r + 1, 0>>)
                    <=> IsPath(maze, <<2 * r + 1, 2 * maze.cols>>)
              /\ IsPath(maze, <<2 * r + 1, 0>>) =>
                    /\ DirectlyConnected(maze, <<r, 0>>, <<r, maze.cols - 1>>)
                    /\ DirectlyConnected(maze, <<r, maze.cols - 1>>, <<r, 0>>)
        /\ NoFarLinks(maze)

\* C6 witness: a generated 3 x 3 maze whose seam is carved in row 0 and not
\* in row 1.
C6_Witness ==
    /\ maze.pc = "done"
    /\ maze.rows = 3
    /\ maze.cols = 3
    /\ IsPath(maze, <<1, 0>>)
    /\ IsPath(maze, <<1, 6>>)
    /\ ~IsPath(maze, <<3, 0>>)
    /\ ~IsPath(maze, <<3, 6>>)

\* C7: cylindrical adjacency. For every cell (row, col) of the lattice,
\* get_neighbors holds (row-1, col) iff row > 0, (row+1, col) iff
\* row < rows-1, always (row, (col-1+cols) mod cols) and
\* (row, (col+1) mod cols), nothing else, and only cells of the lattice.
C7_Neighbors ==
    \A c \in Cells(maze) :
        LET row == c[1]
            col == c[2]
            N == Range(get_neighbors(maze, row, col))
            left == <<row, (col - 1 + maze.cols) % maze.cols>>
            right == <<row, (col + 1) % maze.cols>>
        IN  /\ <<row - 1, col>> \in N <=> row > 0
            /\ <<row + 1, col>> \in N <=> row < maze.rows - 1
            /\ left \in N
            /\ right \in N
            /\ N \subseteq {<<row - 1, col>>, <<row + 1, col>>, left, right}
            /\ N \subseteq Cells(maze)

\* C7 witness: a walk in a 3 x 3 maze has stepped from the middle cell,
\* which has four distinct neighbours.
C7_Witness ==
    /\ maze.pc = "walk"
    /\ maze.rows = 3
    /\ maze.cols = 3
    /\ Len(maze.path) = 2
    /\ maze.path[1] = <<1, 1>>
    /\ Cardinality(Range(get_neighbors(maze, 1, 1))) = 4
    /\ maze.current \in Range(get_neighbors(maze, 1, 1))

\* C8: termination under fair random choice. Once generate_wilson has
\* started, if every neighbour choice offered infinitely often is eventually
\* taken, every walk reaches the visited set and generate_wilson returns;
\* no bound on the number of walk steps is needed.
C8_Termination ==
    (maze.pc \in {"scan", "walk", "commit"}) ~> (maze.pc = "done")

\* C8 witness: in a 2 x 2 maze whose visited set is the seed alone, a walk
\* has stepped to a second cell without reaching the visited set.
C8_Witness ==
    /\ maze.pc = "walk"
    /\ maze.rows = 2
    /\ maze.cols = 2
    /\ Cardinality(maze.in_maze) = 1
    /\ Len(maze.path) = 2
    /\ maze.current \notin maze.in_maze

C10_Ungenerated ==
    (maze.pc = "probed" /\ maze.query[1] # maze.query[2]) => ~maze.solvable

\* C10 witness: on an ungenerated 3 x 3 maze can_solve((0,0), (2,2)) has
\* answered false.
C10_Witness ==
    /\ maze.pc = "probed"
    /\ maze.rows = 3
    /\ maze.cols = 3
    /\ maze.query = << <<0, 0>>, <<2, 2>> >>
    /\ \A p \in Storage(maze) : ~IsPath(maze, p)
    /\ ~maze.solvable

\* C11: the pair generate_wilson returns. start is in row 0, end is in row
\* rows-1, and both columns are columns of the lattice.
C11_StartEnd ==
    Generated(maze) =>
        /\ start(maze)[1] = 0
        /\ end(maze)[1] = maze.rows - 1
        /\ start(maze)[2] \in 0..(maze.cols - 1)
        /\ end(maze)[2] \in 0..(maze.cols - 1)

\* C11 witness: generation has returned (0, 1) and (2, 2) on a 3 x 3 maze.
C11_Witness ==
    /\ maze.pc = "done"
    /\ maze.rows = 3
    /\ maze.cols = 3
    /\ start(maze) = <<0, 1>>
    /\ end(maze) = <<2, 2>>

\* C12 as stated: the start label is picked after all cells are visited,
\* independently of the seed. When the for loops are over on a maze of two
\* or more columns, start(maze) still being the cell seeded at lines 93-95,
\* generate_wilson can return a start that is another cell.
C12_StartDrawnAfterAsStated ==
    (GridFinished(maze) /\ maze.cols >= 2) =>
        ENABLED (PickEnd /\ start(maze') # start(maze))

\* C12 amended: the returned start is the seed. The cell seeded before any
\* walk is the cell start names, and no later step of generate_wilson, the
\* draw of the end column included, changes what start names.
C12_StartIsSeed ==
    [][/\ (maze.pc = "new" /\ maze'.pc = "scan") =>
              maze'.in_maze = {start(maze')}
       /\ maze.pc # "new" => start(maze') = start(maze)
      ]_vars

\* C12 witness: generation has returned on a 3 x 3 maze seeded in column 2;
\* the end column was drawn as 0 and the start returned is the seed.
C12_Witness ==
    /\ maze.pc = "done"
    /\ maze.rows = 3
    /\ maze.cols = 3
    /\ maze.start_col = 2
    /\ maze.end_col = 0
    /\ start(maze) \in maze.in_maze

\* C15 as stated: for every cell get_neighbors yields at least 2 and at most
\* 4 distinct cells.
C15_NeighborCountAsStated ==
    \A c \in Cells(maze) :
        Cardinality(Range(get_neighbors(maze, c[1], c[2]))) \in 2..4

\* C15 amended: for every cell get_neighbors returns between 2 and 4
\* coordinates; they are distinct cells when cols >= 3, and when cols <= 2
\* the left and the right entry are one cell (the cell itself when
\* cols = 1), so that the distinct cells number one less.
C15_NeighborCount ==
    \A c \in Cells(maze) :
        LET neighbors == get_neighbors(maze, c[1], c[2])
            distinct == Cardinality(Range(neighbors))
        IN  /\ Len(neighbors) \in 2..4
            /\ maze.cols >= 3 => distinct = Len(neighbors)
            /\ maze.cols <= 2 => distinct = Len(neighbors) - 1
            /\ maze.cols <= 2 =>
                  neighbors[Len(neighbors)] = neighbors[Len(neighbors) - 1]
            /\ maze.cols = 1 => neighbors[Len(neighbors)] = c

\* C15 witness: a walk in a 1 x 2 maze has drawn from the two entries of
\* get_neighbors, which are one cell.
C15_Witness ==
    /\ maze.pc = "walk"
    /\ maze.rows = 1
    /\ maze.cols = 2
    /\ Len(maze.path) = 2
    /\ Len(get_neighbors(maze, maze.path[1][1], maze.path[1][2])) = 2
    /\ Range(get_neighbors(maze, maze.path[1][1], maze.path[1][2]))
          = {maze.current}

\* C17: loop erasure keeps the walk path duplicate-free. After every step of
\* a walk (and while the path is committed) no cell occurs twice in the path
\* and its first element is the cell the walk started from.
C17_PathDuplicateFree ==
    maze.pc \in {"walk", "commit"} =>
        /\ Len(maze.path) >= 1
        /\ maze.path[1] = <<maze.row, maze.col>>
        /\ \A j \in 1..Len(maze.path) : \A k \in 1..Len(maze.path) :
              maze.path[j] = maze.path[k] => j = k

\* C17 witness: a walk in a 3 x 3 maze stands on its first cell again, the
\* path cut back to that cell, with a neighbour outside the visited set to
\* wander to.
C17_Witness ==
    /\ maze.pc = "walk"
    /\ maze.rows = 3
    /\ maze.cols = 3
    /\ maze.path = << <<0, 1>> >>
    /\ maze.current = <<0, 1>>
    /\ maze.in_maze = {<<0, 0>>}

\* C20: seam consistency. In every grid state from construction on, in every
\* storage row the markers at storage column 0 and storage column 2*cols are
\* equal.
C20_SeamConsistency ==
    \A r \in 0..(2 * maze.rows) :
        maze.grid[r][0] = maze.grid[r][2 * maze.cols]

\* C20 witness: while a path is committed in a 3 x 3 maze the seam of row 1
\* is carved on both sides and some cell is not yet visited.
C20_Witness ==
    /\ maze.pc = "commit"
    /\ maze.rows = 3
    /\ maze.cols = 3
    /\ maze.grid[3][0] = Path
    /\ maze.grid[3][6] = Path
    /\ maze.in_maze # Cells(maze)

\* The two cells wall position p lies between: left and right of it in a
\* cell row (the cells in columns 0 and cols-1 for the two boundary columns),
\* above and below it in a cell column; no cells for the boundary rows and
\* for the positions whose row and column are both even.
Separates(s, p) ==
    LET r == p[1]
        c == p[2]
    IN  IF r % 2 = 1 /\ c % 2 = 0
        THEN IF c = 0 \/ c = 2 * s.cols
             THEN {<<(r - 1) \div 2, 0>>, <<(r - 1) \div 2, s.cols - 1>>}
             ELSE {<<(r - 1) \div 2, (c \div 2) - 1>>, <<(r - 1) \div 2, c \div 2>>}
        ELSE IF r % 2 = 0 /\ c % 2 = 1 /\ r > 0 /\ r < 2 * s.rows
             THEN {<<(r \div 2) - 1, (c - 1) \div 2>>, <<r \div 2, (c - 1) \div 2>>}
             ELSE {}

\* The wall positions the contract of carve_passage opens between a and b.
WallOpened(s, a, b) ==
    LET ag == <<2 * a[1] + 1, 2 * a[2] + 1>>
        bg == <<2 * b[1] + 1, 2 * b[2] + 1>>
    IN  IF a[1] = b[1] /\ {a[2], b[2]} = {0, s.cols - 1}
        THEN {<<2 * a[1] + 1, 0>>, <<2 * a[1] + 1, 2 * s.cols>>}
        ELSE {<<(ag[1] + bg[1]) \div 2, (ag[2] + bg[2]) \div 2>>}

\* C16 as stated: throughout generation a cell's own marker is Path iff the
\* cell is in the visited set, and a wall position is Path iff the two cells
\* it separates have been joined by a carved passage.
C16_GridInvariantAsStated ==
    /\ \A c \in Cells(maze) :
          IsPath(maze, cell_to_grid(c[1], c[2])) <=> c \in maze.in_maze
    /\ \A p \in WallPositions(maze) :
          IsPath(maze, p) <=>
              /\ Cardinality(Separates(maze, p)) = 2
              /\ Separates(maze, p) \in maze.carved

\* C16 amended: throughout generation a cell's own marker is Path iff the
\* cell is in the visited set, except that the first cell of a path being
\* committed is in the visited set one iteration of the commit loop before
\* its marker is set; and a wall position is Path iff it is a position
\* carve_passage opens between two cells that have been joined (the midpoint,
\* or both boundary columns for a pair in columns 0 and cols-1, which on two
\* columns is every horizontal pair).
C16_GridInvariant ==
    /\ \A c \in Cells(maze) :
          IsPath(maze, cell_to_grid(c[1], c[2])) <=>
              /\ c \in maze.in_maze
              /\ ~(maze.pc = "commit" /\ maze.i = 1 /\ c = maze.path[1])
    /\ CarvedWalls(maze)
          = UNION {UNION {WallOpened(maze, ab[1], ab[2]) :
                              ab \in {x \in pair \X pair : x[1] # x[2]}}
                      : pair \in maze.carved}

\* C16 witness: on a 2 x 2 maze whose top row is joined through the seam,
\* the wall between the two columns still Wall, the commit loop has inserted
\* the first cell of a path and not yet carved.
C16_Witness ==
    /\ maze.pc = "commit"
    /\ maze.rows = 2
    /\ maze.cols = 2
    /\ maze.i = 1
    /\ {<<0, 0>>, <<0, 1>>} \in maze.carved
    /\ IsPath(maze, <<1, 0>>)
    /\ IsPath(maze, <<1, 4>>)
    /\ ~IsPath(maze, <<1, 2>>)
    /\ maze.path[1] \in maze.in_maze
    /\ ~IsPath(maze, cell_to_grid(maze.path[1][1], maze.path[1][2]))

\* C19: the path a walk commits. When the walk has stopped the path has at
\* least two elements, consecutive elements are distinct cells adjacent by
\* get_neighbors, the last element is in the visited set as it was when the
\* walk stopped and no earlier element is; and after i iterations of the
\* commit loop min(i, n-1) cells are new in the visited set and max(i-1, 0)
\* passages are new in the grid, hence n-1 cells and n-1 passages when the
\* path of length n is committed.
C19_CommittedPath ==
    maze.pc = "commit" =>
        LET n == Len(maze.path)
            added == IF maze.i < n THEN maze.i ELSE n - 1
            old == maze.in_maze \ {maze.path[k] : k \in 1..added}
        IN  /\ n >= 2
            /\ \A k \in 1..(n - 1) :
                  /\ maze.path[k] # maze.path[k + 1]
                  /\ maze.path[k + 1]
                        \in Range(get_neighbors(maze, maze.path[k][1],
                                                maze.path[k][2]))
            /\ maze.path[n] \in old
            /\ \A k \in 1..(n - 1) : maze.path[k] \notin old
            /\ Cardinality(maze.in_maze) = Cardinality(old) + added
            /\ Cardinality(Passages(maze))
                  = Cardinality(old) - 1 + (IF maze.i > 0 THEN maze.i - 1 ELSE 0)

\* C19 witness: the first walk of a 3 x 3 maze is committed, a path of four
\* cells that added three cells to the seed and carved three passages.
C19_Witness ==
    /\ maze.pc = "commit"
    /\ maze.rows = 3
    /\ maze.cols = 3
    /\ Len(maze.path) = 4
    /\ maze.i = 4
    /\ Cardinality(maze.in_maze) = 4
    /\ Cardinality(Passages(maze)) = 3

\* The grid between walks: fresh, when a walk is about to start (for the
\* first time just after the seed), and finished.
BetweenWalks(s) ==
    \/ s.pc = "new"
    \/ s.pc = "scan" /\ (s.row = s.rows \/ <<s.row, s.col>> \notin s.in_maze)

\* Every grid content generation produces is the grid of one of these
\* states: the grid changes at the seed and at each carve_passage of the
\* commit loop (i >= 2 after the first carve), and nowhere else.
GridStates(s) == BetweenWalks(s) \/ (s.pc = "commit" /\ s.i >= 2)

\* C14: the verifier is total. On every grid content (fresh, partially or
\* fully generated) and for every pair of logical cells, can_solve ends
\* after at most one iteration per storage position and returns true or
\* false, gives no storage position to the queue twice, and indexes the
\* grid only inside the (2*rows+1) x (2*cols+1) array.
C14_VerifierTotal ==
    GridStates(maze) =>
        \A a \in Cells(maze), b \in Cells(maze) :
            LET run == can_solve_run(maze, a, b)
            IN  /\ ~run.panicked
                /\ run.result \in BOOLEAN
                /\ run.pops <= Cardinality(Storage(maze))
                /\ Range(run.pushed) \subseteq Storage(maze)
                /\ Cardinality(Range(run.pushed)) = Len(run.pushed)

\* C14 witness: on a partially generated 2 x 3 maze whose only passage is the
\* seam passage of row 0, can_solve from <<0, 0>> finds <<0, 2>> by a search
\* that wraps from storage column 0 to storage column 6, and exhausts its
\* queue for the unvisited <<1, 1>>.
C14_Witness ==
    /\ maze.pc = "scan"
    /\ maze.rows = 2
    /\ maze.cols = 3
    /\ maze.in_maze = {<<0, 0>>, <<0, 2>>}
    /\ can_solve_run(maze, <<0, 0>>, <<0, 2>>) =
           [panicked |-> FALSE, result |-> TRUE,
            pushed |-> <<<<1, 1>>, <<1, 0>>, <<1, 6>>, <<1, 5>>>>, pops |-> 4]
    /\ can_solve_run(maze, <<0, 0>>, <<1, 1>>).result = FALSE
    /\ can_solve_run(maze, <<0, 0>>, <<1, 1>>).pops = 4

\* C18: the storage-space verifier agrees with logical reachability. On the
\* fresh grid, the grid after each committed walk and the finished grid, the
\* open passages of the grid join exactly the pairs of cells carve_passage
\* was called on, and for any two distinct cells a, b: can_solve(a, b) is
\* true iff a chain of carved passages joins a to b, iff both a and b are in
\* the visited set.
C18_VerifierAgrees ==
    BetweenWalks(maze) =>
        LET links == {Ends(maze, e) : e \in Passages(maze)}
        IN  /\ links = maze.carved
            /\ \A a \in Cells(maze) :
                   LET chain == Joined(links, {a})
                   IN  \A b \in Cells(maze) \ {a} :
                           /\ can_solve(maze, a, b) <=> b \in chain
                           /\ b \in chain <=>
                                  (a \in maze.in_maze /\ b \in maze.in_maze)

\* C18 witness: a 2 x 3 maze after its first committed walk, which went
\* from <<0, 0>> down, across the seam of row 1 and up to the seed <<0, 2>>.
\* can_solve joins <<0, 0>> to <<0, 2>> in both directions, though the seam
\* of row 0 is closed, and finds neither a way to the unvisited <<0, 1>> nor
\* a way out of it.
C18_Witness ==
    /\ maze.pc = "scan"
    /\ maze.rows = 2
    /\ maze.cols = 3
    /\ maze.in_maze = {<<0, 0>>, <<1, 0>>, <<1, 2>>, <<0, 2>>}
    /\ maze.carved = {{<<0, 0>>, <<1, 0>>}, {<<1, 0>>, <<1, 2>>},
                      {<<1, 2>>, <<0, 2>>}}
    /\ ~IsPath(maze, <<1, 0>>)
    /\ can_solve(maze, <<0, 0>>, <<0, 2>>)
    /\ can_solve(maze, <<0, 2>>, <<0, 0>>)
    /\ ~can_solve(maze, <<0, 0>>, <<0, 1>>)
    /\ ~can_solve(maze, <<0, 1>>, <<0, 0>>)

\* The storage positions no passage may occupy: storage rows 0 and 2*rows,
\* and the positions whose row and column indices are both even.
Border(s) ==
    {p \in Storage(s) : p[1] = 0 \/ p[1] = 2 * s.rows
                          \/ (p[1] % 2 = 0 /\ p[2] % 2 = 0)}

\* C21: the maze stays closed at top and bottom. In every reachable state
\* every position of storage row 0 and of storage row 2*rows is Wall, and so
\* is every position whose row and column indices are both even; and no
\* step of the program turns a Path position back into Wall.
C21_ClosedTopBottom ==
    /\ [](\A p \in Border(maze) : maze.grid[p[1]][p[2]] = Wall)
    /\ [][\A p \in Storage(maze) : IsPath(maze, p) => IsPath(maze', p)]_vars

\* C21 witness: a generated 3 x 3 maze with a passage below a cell of the
\* top row, a passage above a cell of the bottom row and the seam of row 0
\* carved, whose storage rows 0 and 6 and even-even positions are all Wall.
C21_Witness ==
    /\ maze.pc = "done"
    /\ maze.rows = 3
    /\ maze.cols = 3
    /\ IsPath(maze, <<2, 1>>)
    /\ IsPath(maze, <<4, 5>>)
    /\ IsPath(maze, <<1, 0>>)
    /\ IsPath(maze, <<1, 6>>)
    /\ \A p \in Border(maze) : ~IsPath(maze, p)

====
